---------------------------- MODULE Spec2Model ----------------------------
(***************************************************************************)
(* Model of ai-music-generation-program.py: the five layer generators      *)
(* (make_melody, make_arpeggio, make_bass, make_pads, make_drums), the      *)
(* mixer add_events with the waveform generators, and the normalisation     *)
(* of the mixed buffer.                                                     *)
(*                                                                          *)
(* Time.  The program computes with floats in seconds.  The model keeps     *)
(* every time exact: one tick is 1/(100*bpm) s, so that a beat (60/bpm s),  *)
(* its halves and quarters, and every hundredth of a second (the drum       *)
(* durations 0.08, 0.06, 0.05, 0.04 s) are whole numbers of ticks.  Float   *)
(* rounding is therefore not modelled.                                      *)
(*                                                                          *)
(* Samples.  A float sample is kept as a whole number of 1/10000 (waveform  *)
(* in thousandths times the layer volume in tenths); sin and exp are read   *)
(* from small tables.                                                       *)
(***************************************************************************)
EXTENDS Integers, Sequences, FiniteSets, TLC

VARIABLES
  pc,        \* position of the script / of the running call
  bpm,       \* tempo, the argument bpm of the generators
  DURATION,  \* total duration in seconds (the module constant DURATION)
  layer,     \* the generator being called
  prog,      \* chord progression argument
  motif,     \* motif argument of make_melody
  style,     \* make_arpeggio's style, drawn once per call
  t,         \* the local clock of the generator, in ticks
  idx,       \* idx of arpeggio / bass / pads, the slot i of make_drums
  out,       \* the event list being built
  events,    \* the five event lists handed to add_events
  seed,      \* state of np.random when the drum layer is mixed
  buffer,    \* the sample buffer, cells 0 .. N-1
  unit,      \* denominator of the buffer's cells (0: the cells are 0 * inf)
  mixed,     \* layers whose add_events call has returned
  cur,       \* layer of the running add_events call
  ei         \* position of the running add_events call in its event list

vars == <<pc, bpm, DURATION, layer, prog, motif, style, t, idx, out,
          events, seed, buffer, unit, mixed, cur, ei>>

genVars == <<bpm, DURATION, layer, prog, motif, style>>
mixVars == <<events, seed, buffer, unit, mixed, cur, ei>>

----------------------------------------------------------------------------
(* Bounds of the model *)

\* total durations 1 .. MaxD seconds
MaxD == 2
\* make_melody is called with at most this many half beats in DURATION
MaxMelodySteps == 4
\* make_arpeggio in style 'rand' is called with at most this many half beats
MaxArpSteps == 8
\* every other call spans at most this many half beats
MaxSteps == 12
\* samples per second of the model's buffer (the program's SR is 44100)
SR == 25
\* an event list handed to add_events is a prefix of length 0, 1 or MaxEvents
MaxEvents == 2

Bpms == {60, 100, 120, 300, 360}

----------------------------------------------------------------------------
(* Static tables *)

Min(a, b) == IF a <= b THEN a ELSE b

Range(s) == {s[k] : k \in DOMAIN s}

\* frequencies in hundredths of a Hertz
note_freqs ==
  [n \in {"C3","D3","E3","F3","G3","A3","B3","C4","D4","E4","F4","G4","A4",
          "B4","C5","D5","E5"} |->
     CASE n = "C3" -> 13081 [] n = "D3" -> 14683 [] n = "E3" -> 16481
       [] n = "F3" -> 17461 [] n = "G3" -> 19600 [] n = "A3" -> 22000
       [] n = "B3" -> 24694 [] n = "C4" -> 26163 [] n = "D4" -> 29366
       [] n = "E4" -> 32963 [] n = "F4" -> 34923 [] n = "G4" -> 39200
       [] n = "A4" -> 44000 [] n = "B4" -> 49388 [] n = "C5" -> 52325
       [] n = "D5" -> 58733 [] n = "E5" -> 65925]

chord_notes ==
  [r \in {"C3","G3","A3","F3","E3"} |->
     CASE r = "C3" -> <<"C4","E4","G4">>
       [] r = "G3" -> <<"G4","B4","D5">>
       [] r = "A3" -> <<"A4","C5","E5">>
       [] r = "F3" -> <<"F4","A4","C5">>
       [] r = "E3" -> <<"E3","G3","B3">>]

scale == <<"C4","D4","E4","F4","G4","A4","B4","C5">>

\* progressions the generators are called with: two of chord_progressions
\* and a progression of one repeated chord
Progs == { <<"C3","G3","A3","F3">>, <<"F3","G3","E3","A3">>, <<"C3">> }

\* motifs: three notes of the scale
Motifs == { <<"C4","E4","G4">>, <<"D4","D4","B4">> }

Layers == {"melody", "arpeggio", "bassline", "pads", "drums"}
Tonal  == {"melody", "arpeggio", "bassline", "pads"}

----------------------------------------------------------------------------
(* Time *)

TicksPerSecond == 100 * bpm

\* h hundredths of a second, in ticks
Centi(h) == h * bpm

\* beat = 60/bpm seconds
beat == (60 * TicksPerSecond) \div bpm

\* DURATION in ticks
DTicks == DURATION * TicksPerSecond

\* the number of half beats that start before DURATION
HalfBeats(b, d) == (d * b + 29) \div 30

Event(sym, dur, start) == [sym |-> sym, dur |-> dur, start |-> start]

----------------------------------------------------------------------------
(* Layer generators *)

\* while t < DURATION   (variant: while t <= DURATION)
LoopCondLeq(tt) == tt <= DTicks
LoopCond(tt) == tt < DTicks

\* dur = min(step, DURATION - t)   (variant: dur = step)
NoClamp(step, tt) == step
ClampDur(step, tt) == Min(step, DTicks - tt)

\* out.append(e)   (variant: out.insert(0, e))
EmitFront(o, e) == <<e>> \o o
Emit(o, e) == Append(o, e)

RECURSIVE EmitAll(_, _)
EmitAll(o, es) == IF es = <<>> THEN o ELSE EmitAll(Emit(o, Head(es)), Tail(es))

\* prog[int(t/chord_len) % len(prog)]
RootAt(tt) == prog[((tt \div (4 * beat)) % Len(prog)) + 1]

\* prog[idx % len(prog)]
RootOf(i) == prog[(i % Len(prog)) + 1]

Orders(notes) ==
  {p \in [1..Len(notes) -> Range(notes)] :
     \A x \in Range(notes) :
        Cardinality({k \in 1..Len(notes) : p[k] = x}) =
        Cardinality({k \in 1..Len(notes) : notes[k] = x})}

\* the orders of the triad make_arpeggio can hold after the three style lines
StyleOrders(notes) ==
  CASE style = "asc"  ->
         {p \in Orders(notes) :
            \A k \in 1..(Len(p) - 1) : note_freqs[p[k]] <= note_freqs[p[k+1]]}
    [] style = "desc" ->
         {p \in Orders(notes) :
            \A k \in 1..(Len(p) - 1) : note_freqs[p[k]] >= note_freqs[p[k+1]]}
    [] OTHER -> Orders(notes)

MelodyStep ==
  /\ pc = "loop" /\ layer = "melody" /\ LoopCond(t)
  /\ \E fromChord \in BOOLEAN, useMotif \in BOOLEAN, mult \in {1, 2, 4} :
       LET pool == IF useMotif THEN motif
                   ELSE IF fromChord THEN chord_notes[RootAt(t)] ELSE scale
       IN \E note \in Range(pool) :
            LET dur == ClampDur((mult * beat) \div 2, t)
            IN /\ out' = Emit(out, Event(note, dur, t))
               /\ t' = t + dur
  /\ UNCHANGED <<pc, idx>>
  /\ UNCHANGED genVars /\ UNCHANGED mixVars

\* step = 0.5*beat   (variant: step = beat)
WholeBeatStep == beat
ArpStep == beat \div 2

ArpeggioStep ==
  /\ pc = "loop" /\ layer = "arpeggio" /\ LoopCond(t)
  /\ \E notes \in StyleOrders(chord_notes[RootAt(t)]) :
       LET dur == ClampDur(ArpStep, t)
       IN /\ out' = Emit(out, Event(notes[(idx % Len(notes)) + 1], dur, t))
          /\ t' = t + dur
          /\ idx' = idx + 1
  /\ UNCHANGED pc
  /\ UNCHANGED genVars /\ UNCHANGED mixVars

BassStep ==
  /\ pc = "loop" /\ layer = "bassline" /\ LoopCond(t)
  /\ LET dur == ClampDur(4 * beat, t)
     IN /\ out' = Emit(out, Event(RootOf(idx), dur, t))
        /\ t' = t + dur
        /\ idx' = idx + 1
  /\ UNCHANGED pc
  /\ UNCHANGED genVars /\ UNCHANGED mixVars

PadsStep ==
  /\ pc = "loop" /\ layer = "pads" /\ LoopCond(t)
  /\ LET chord_dur == 4 * beat
         notes == chord_notes[RootOf(idx)]
         dur == ClampDur(chord_dur, t)
     IN /\ out' = EmitAll(out, [k \in 1..Len(notes) |-> Event(notes[k], dur, t)])
        /\ t' = t + chord_dur
        /\ idx' = idx + 1
  /\ UNCHANGED pc
  /\ UNCHANGED genVars /\ UNCHANGED mixVars

\* range(int(DURATION/beat))   (variant: range(int(DURATION/beat) + 1))
SlotsPlusOne == (DTicks \div beat) + 1
Slots == DTicks \div beat

\* b = (i % 4) + 1   (variant: b = i % 4)
PhaseOff(i) == i % 4
Phase(i) == (i % 4) + 1

\* the events of slot i, in the order of the appends
SlotEvents(i, roll) ==
  LET start == i * beat
      b == Phase(i)
  IN (IF b \in {1, 3} THEN <<Event("kick", Centi(8), start)>> ELSE <<>>)
     \o (IF b \in {2, 4}
           THEN <<Event("snare", Centi(8), start)>>
                \o (IF 2 * start > DTicks
                      THEN <<Event("clap", Centi(8), start)>> ELSE <<>>)
           ELSE <<>>)
     \o <<Event("hihat", Centi(6), start)>>
     \o <<Event("hihat", Centi(4), start + (beat \div 4))>>
     \o (IF roll
           THEN [j \in 1..4 |-> Event("snare", Centi(5), start + (j - 1) * Centi(5))]
           ELSE <<>>)

DrumsStep ==
  /\ pc = "loop" /\ layer = "drums" /\ idx < Slots
  /\ \E roll \in BOOLEAN : out' = EmitAll(out, SlotEvents(idx, roll))
  /\ idx' = idx + 1
  /\ UNCHANGED <<pc, t>>
  /\ UNCHANGED genVars /\ UNCHANGED mixVars

\* the loop condition fails: return out
Return ==
  /\ pc = "loop"
  /\ \/ layer \in Tonal /\ ~LoopCond(t)
     \/ layer = "drums" /\ idx >= Slots
  /\ pc' = "done"
  /\ UNCHANGED <<t, idx, out>>
  /\ UNCHANGED genVars /\ UNCHANGED mixVars

\* the calls the model makes: the branching layers are called on short pieces
Budget(l, s) ==
  CASE l = "melody" -> MaxMelodySteps
    [] l = "arpeggio" /\ s = "rand" -> MaxArpSteps
    [] OTHER -> MaxSteps

InitGen ==
  /\ pc = "loop"
  /\ layer \in Layers
  /\ bpm \in Bpms
  /\ DURATION \in 1..MaxD
  /\ prog \in Progs
  /\ motif \in (IF layer = "melody" THEN Motifs ELSE {<<>>})
  /\ style \in (IF layer = "arpeggio" THEN {"asc", "desc", "rand"} ELSE {"none"})
  /\ HalfBeats(bpm, DURATION) <= Budget(layer, style)
  /\ t = 0 /\ idx = 0 /\ out = <<>>
  /\ events = [l \in Layers |-> <<>>] /\ seed = 0
  /\ buffer = <<>> /\ unit = 10000 /\ mixed = {} /\ cur = "none" /\ ei = 0

NextGen == MelodyStep \/ ArpeggioStep \/ BassStep \/ PadsStep \/ DrumsStep \/ Return

SpecGen == InitGen /\ [][NextGen]_vars

\* the script runs to its end: a call that can take a step takes it
FairGen == SpecGen /\ WF_vars(NextGen)

----------------------------------------------------------------------------
(* Waveform generators.  Samples are in thousandths. *)

Abs(x) == IF x < 0 THEN 0 - x ELSE x
Max(a, b) == IF a >= b THEN a ELSE b

\* buffer = np.zeros(int(DURATION*SR))
N == DURATION * SR

\* i0 = int(start * SR)
I0(start) == (start * SR) \div TicksPerSecond

\* int(SR*dur), the length of np.linspace(0, dur, int(SR*dur), False)
WaveLen(dur) == (SR * dur) \div TicksPerSecond

\* sin over one period in eight steps, in hundredths
SinTable == <<0, 71, 100, 71, 0, -71, -100, -71>>

\* exp(-x) for x = 0, 0.5, 1, ..., in hundredths
ExpTable == <<100, 61, 37, 22, 14, 8, 5, 3, 2, 1>>

ExpQ(twoX) == IF twoX >= Len(ExpTable) THEN 0 ELSE ExpTable[twoX + 1]

\* np.sin(2*np.pi*freq*t) at t = k*dur/num, freq in Hz, in hundredths
SinQ(freq, dur, num, k) ==
  SinTable[(((8 * freq * (dur \div bpm) * k) \div (100 * num)) % 8) + 1]

\* sample k (from 0) of sine_wave(freq, dur, decay_factor), decay_factor in
\* tenths
SineSample(freq, dur, decay, k) ==
  LET num == WaveLen(dur)
  IN IF decay > 0
       THEN (SinQ(freq, dur, num, k) * ExpQ((2 * decay * k) \div (10 * num))) \div 10
       ELSE 10 * SinQ(freq, dur, num, k)

sine_wave(freq, dur, decay) ==
  [k \in 1..WaveLen(dur) |-> SineSample(freq, dur, decay, k - 1)]

\* np.random.rand: the sample k of the j-th event of the drum layer draws a
\* value of [0, 1), in hundredths, from the stream the seed fixes
Rand(sd, j, k) == (37 * sd + 41 * j + 13 * k + 29) % 100

\* np.exp(-t*rate) at t = k*dur/num, in hundredths
Decay(rate, dur, num, k) == ExpQ((2 * rate * (dur \div bpm) * k) \div (100 * num))

\* sample k (from 0) of drum_sound(kind, dur); an unknown kind gives
\* np.zeros(len(t))
DrumSample(kind, dur, sd, j, k) ==
  LET num == WaveLen(dur)
  IN CASE kind = "kick"  ->
            (10 * SinQ(55, dur, num, k) * Decay(30, dur, num, k)) \div 100
       [] kind = "snare" ->
            ((8 * SinQ(180, dur, num, k) + 2 * Rand(sd, j, k)) * Decay(20, dur, num, k)) \div 100
       [] kind = "hihat" -> (4 * Rand(sd, j, k) * Decay(60, dur, num, k)) \div 100
       [] kind = "clap"  -> (6 * Rand(sd, j, k) * Decay(40, dur, num, k)) \div 100
       [] OTHER -> 0

drum_sound(kind, dur, sd, j) ==
  [k \in 1..WaveLen(dur) |-> DrumSample(kind, dur, sd, j, k - 1)]

\* the volume of each add_events call, in tenths
Vol(l) ==
  CASE l = "melody" -> 9 [] l = "arpeggio" -> 3 [] l = "bassline" -> 7
    [] l = "pads" -> 2 [] OTHER -> 10

\* the decay_factor of each tonal lambda, in tenths
DecayOf(l) ==
  CASE l = "melody" -> 30 [] l = "arpeggio" -> 30 [] l = "bassline" -> 0
    [] OTHER -> 5

\* note_freqs[n] raises KeyError for a name that is no key
KeyError(l, sym) == l \in Tonal /\ sym \notin DOMAIN note_freqs

\* data = gen_fn(name, dur) * vol, for event j of layer l
Data(l, e, j, sd) ==
  LET wave == IF l \in Tonal
                THEN sine_wave(note_freqs[e.sym] \div 100, e.dur, DecayOf(l))
                ELSE drum_sound(e.sym, e.dur, sd, j)
  IN [k \in DOMAIN wave |-> wave[k] * Vol(l)]

----------------------------------------------------------------------------
(* Mixer *)

\* buf[i0:i1] += data[:i1-i0]   (variant: buf[i0:i1] = data[:i1-i0])
AddSliceOverwrite(buf, i0, i1, data) ==
  [k \in DOMAIN buf |-> IF i0 <= k /\ k < i1 THEN data[k - i0 + 1] ELSE buf[k]]
AddSlice(buf, i0, i1, data) ==
  [k \in DOMAIN buf |-> IF i0 <= k /\ k < i1 THEN buf[k] + data[k - i0 + 1] ELSE buf[k]]

\* one iteration of add_events' loop on a buffer of n cells
\* (variant: an event that does not fit is moved back to end at the buffer's end)
AddOneShiftBack(buf, n, start, data) ==
  LET i0 == Max(0, Min(I0(start), n - Len(data)))
      i1 == Min(i0 + Len(data), n)
  IN AddSlice(buf, i0, i1, data)
AddOne(buf, n, start, data) ==
  LET i0 == I0(start)
      i1 == Min(i0 + Len(data), n)
  IN IF i0 < n THEN AddSlice(buf, i0, i1, data) ELSE buf

\* add_events(buffer, <layer l>, ...) is called
Call(l) ==
  /\ pc = "idle" /\ l \notin mixed
  /\ pc' = "mixing" /\ cur' = l /\ ei' = 1
  /\ UNCHANGED <<events, seed, buffer, unit, mixed>>
  /\ UNCHANGED genVars /\ UNCHANGED <<t, idx, out>>

\* one event of the running call
AddEvent ==
  /\ pc = "mixing" /\ ei <= Len(events[cur])
  /\ LET e == events[cur][ei]
     IN IF KeyError(cur, e.sym)
          THEN /\ pc' = "aborted"
               /\ UNCHANGED <<buffer, ei>>
          ELSE /\ buffer' = AddOne(buffer, N, e.start, Data(cur, e, ei, seed))
               /\ ei' = ei + 1
               /\ UNCHANGED pc
  /\ UNCHANGED <<events, seed, unit, mixed, cur>>
  /\ UNCHANGED genVars /\ UNCHANGED <<t, idx, out>>

\* the running call returns
EndCall ==
  /\ pc = "mixing" /\ ei > Len(events[cur])
  /\ pc' = "idle" /\ mixed' = mixed \cup {cur} /\ cur' = "none" /\ ei' = 0
  /\ UNCHANGED <<events, seed, buffer, unit>>
  /\ UNCHANGED genVars /\ UNCHANGED <<t, idx, out>>

RECURSIVE MaxAbs(_, _)
MaxAbs(buf, n) == IF n = 0 THEN 0 ELSE Max(Abs(buf[n - 1]), MaxAbs(buf, n - 1))

\* buffer *= 0.9 / np.max(np.abs(buffer)): a cell buffer[k]/unit becomes
\* 9*buffer[k] / (10*max); with max = 0 the factor is inf and every cell
\* 0 * inf, which unit = 0 stands for
Normalize ==
  /\ pc = "idle" /\ mixed = Layers
  /\ buffer' = [k \in DOMAIN buffer |-> 9 * buffer[k]]
  /\ unit' = 10 * MaxAbs(buffer, N)
  /\ pc' = "normalized"
  /\ UNCHANGED <<events, seed, mixed, cur, ei>>
  /\ UNCHANGED genVars /\ UNCHANGED <<t, idx, out>>

\* the event lists the mixer is run on: per layer, events a generator returns
\* at bpm 120, and an event that starts exactly at DURATION, an event that
\* runs past DURATION, a note that is no key of note_freqs and a drum kind
\* drum_sound does not know
Pool(l) ==
  CASE l = "melody" ->
         << Event("C4", Centi(50), 0),
            Event("E4", Centi(100), DTicks - Centi(50)),
            Event("G4", Centi(50), Centi(25)) >>
    [] l = "arpeggio" ->
         << Event("G4", Centi(25), Centi(25)),
            Event("H9", Centi(25), Centi(50)),
            Event("E4", Centi(25), Centi(75)) >>
    [] l = "bassline" ->
         << Event("C3", Min(Centi(200), DTicks), 0),
            Event("C3", Centi(200), DTicks),
            Event("G3", Centi(200), Centi(50)) >>
    [] l = "pads" ->
         << Event("C4", Min(Centi(200), DTicks), 0),
            Event("E4", Min(Centi(200), DTicks), 0),
            Event("G4", Min(Centi(200), DTicks), 0) >>
    [] OTHER ->
         << Event("kick", Centi(8), 0),
            Event("cowbell", Centi(8), Centi(50)),
            Event("hihat", Centi(6), Centi(50)) >>

Prefix(l, n) == [j \in 1..n |-> Pool(l)[((j - 1) % 3) + 1]]

Seeds == {0, 1}

InitMix ==
  /\ pc = "idle"
  /\ bpm = 120
  /\ DURATION \in 1..MaxD
  /\ layer = "none" /\ prog = <<>> /\ motif = <<>> /\ style = "none"
  /\ t = 0 /\ idx = 0 /\ out = <<>>
  /\ \E n \in [Layers -> {0, 1, MaxEvents}] : events = [l \in Layers |-> Prefix(l, n[l])]
  /\ seed \in (IF events["drums"] = <<>> THEN {0} ELSE Seeds)
  /\ buffer = [k \in 0..(N - 1) |-> 0]
  /\ unit = 10000
  /\ mixed = {} /\ cur = "none" /\ ei = 0

NextMix == (\E l \in Layers : Call(l)) \/ AddEvent \/ EndCall \/ Normalize

SpecMix == InitMix /\ [][NextMix]_vars

----------------------------------------------------------------------------
(* Properties of the generators *)

RECURSIVE SumDur(_)
SumDur(o) == IF o = <<>> THEN 0 ELSE Head(o).dur + SumDur(Tail(o))

EndsBy(o) == \A k \in DOMAIN o : o[k].start + o[k].dur <= DTicks

Sorted(o) == \A k \in 1..(Len(o) - 1) : o[k].start <= o[k+1].start

\* the events tile [0, DURATION): first at 0, each next where the previous ends
Tiles(o) ==
  /\ o # <<>>
  /\ o[1].start = 0
  /\ \A k \in 1..(Len(o) - 1) : o[k+1].start = o[k].start + o[k].dur
  /\ SumDur(o) = DTicks

HasRoll(o) == \E k \in DOMAIN o : o[k].sym = "snare" /\ o[k].dur = Centi(5)

Count(o, e) == Cardinality({k \in DOMAIN o : o[k] = e})

CountKind(o, sym, dur) ==
  Cardinality({k \in DOMAIN o : o[k].sym = sym /\ o[k].dur = dur})

\* C1 as stated: for every bpm and DURATION, every event of every generator
\* ends by DURATION (start + dur <= DURATION).
C1_Original == EndsBy(out)

\* C1 amended: for every bpm up to 300 (a beat of at least 0.2 s, the span of
\* a snare roll) and every DURATION, every event of every generator ends by
\* DURATION.
C1_EndsByDuration == bpm <= 300 => EndsBy(out)

\* a finished drum list at bpm 300 whose last roll hit ends exactly at DURATION
C1_Witness ==
  /\ pc = "done" /\ layer = "drums" /\ bpm = 300
  /\ \E k \in DOMAIN out :
       /\ out[k].sym = "snare" /\ out[k].dur = Centi(5)
       /\ out[k].start + out[k].dur = DTicks

\* C2 as stated: the list returned by make_melody, make_arpeggio, make_bass
\* and make_pads tiles [0, DURATION) and its durations sum to DURATION.
C2_Original == (pc = "done" /\ layer \in Tonal) => Tiles(out)

\* C2 amended: the lists of make_melody, make_arpeggio and make_bass tile
\* [0, DURATION) and their durations sum to DURATION; make_pads returns groups
\* of three events with one start and one duration, the groups tile
\* [0, DURATION) and the durations sum to 3 * DURATION.
C2_Tiling ==
  pc = "done" =>
    /\ layer \in {"melody", "arpeggio", "bassline"} => Tiles(out)
    /\ layer = "pads" =>
         /\ Len(out) % 3 = 0
         /\ \A k \in DOMAIN out :
              LET g == 3 * ((k - 1) \div 3) + 1
              IN out[k].start = out[g].start /\ out[k].dur = out[g].dur
         /\ Tiles([g \in 1..(Len(out) \div 3) |-> out[3 * g - 2]])
         /\ SumDur(out) = 3 * DTicks

\* a finished pad list of two chords, the second one clamped
C2_Witness ==
  /\ pc = "done" /\ layer = "pads" /\ Len(out) = 6
  /\ out[4].dur < 4 * beat /\ out[4].start = out[6].start

\* C5: with DURATION = 1, bpm = 120 and a progression of one repeated chord,
\* make_bass returns the one event (root, 1.0 s, 0.0) and make_arpeggio four
\* events of 0.25 s starting at 0, 0.25, 0.5 and 0.75 s.
C5_Scenario ==
  (pc = "done" /\ bpm = 120 /\ DURATION = 1 /\ \A k \in DOMAIN prog : prog[k] = prog[1]) =>
    /\ layer = "bassline" => out = <<Event(prog[1], Centi(100), 0)>>
    /\ layer = "arpeggio" =>
         /\ Len(out) = 4
         /\ \A k \in 1..4 : out[k].dur = Centi(25) /\ out[k].start = (k - 1) * Centi(25)

C5_Witness ==
  /\ pc = "done" /\ bpm = 120 /\ DURATION = 1 /\ prog = <<"C3">>
  /\ layer = "arpeggio" /\ Len(out) = 4 /\ out[4].start = Centi(75)

C7_Original == Sorted(out)

\* C7 amended: the start times are non-decreasing in the lists of make_melody,
\* make_arpeggio, make_bass and make_pads, and in the list of make_drums
\* exactly when no snare roll fired: a roll's first hit, at the slot start,
\* follows the hi-hat at start + 0.25*beat.
C7_SortedUnlessRoll ==
  /\ layer \in Tonal => Sorted(out)
  /\ layer = "drums" => (Sorted(out) <=> ~HasRoll(out))

\* a finished drum list with a roll, whose starts go back
C7_Witness ==
  /\ pc = "done" /\ layer = "drums" /\ HasRoll(out) /\ ~Sorted(out)

\* C10: the loops of make_melody, make_arpeggio, make_bass and make_pads
\* terminate: every event has a duration > 0, every iteration moves the clock
\* forward, the loop is left at the first clock value >= DURATION, the clock of
\* melody, arpeggio and bass is then exactly DURATION, and the call returns.
C10_Terminates ==
  /\ [](layer \in Tonal => \A k \in DOMAIN out : out[k].dur > 0)
  /\ []((pc = "done" /\ layer \in {"melody", "arpeggio", "bassline"}) => t = DTicks)
  /\ [][(layer \in Tonal /\ pc = "loop") =>
          \/ t < DTicks /\ t' > t /\ pc' = "loop" /\ Len(out') > Len(out)
          \/ t >= DTicks /\ pc' = "done" /\ out' = out /\ t' = t]_vars
  /\ (layer \in Tonal /\ pc = "loop") ~> (pc = "done")

\* a melody that returned after at least three notes, the last one clamped
C10_Witness ==
  /\ pc = "done" /\ layer = "melody" /\ Len(out) >= 3
  /\ out[Len(out)].dur < beat \div 2

----------------------------------------------------------------------------
(* Properties of the mixer and of the normalisation *)

\* what event j of layer l adds to cell k: its sample k - i0 times the volume
Contribution(l, j, k) ==
  LET e == events[l][j]
      i0 == (e.start * SR) \div TicksPerSecond
      num == (SR * e.dur) \div TicksPerSecond
  IN IF i0 <= k /\ k < i0 + num
       THEN Vol(l) * (IF l \in Tonal
                        THEN SineSample(note_freqs[e.sym] \div 100, e.dur, DecayOf(l), k - i0)
                        ELSE DrumSample(e.sym, e.dur, seed, j, k - i0))
       ELSE 0

RECURSIVE LayerSum(_, _, _)
LayerSum(l, j, k) ==
  IF j = 0 THEN 0 ELSE Contribution(l, j, k) + LayerSum(l, j - 1, k)

LayerAt(l, k) == IF l \in mixed THEN LayerSum(l, Len(events[l]), k) ELSE 0

\* C3: add_events never writes outside the buffer and drops late events: an
\* iteration on an event with i0 >= N leaves the buffer as it is, one with
\* i0 < N changes only the cells i0 .. min(i0 + len(waveform), N) - 1, and the
\* buffer keeps its N cells.
C3_Frame ==
  [][(pc = "mixing" /\ ei <= Len(events[cur])) =>
       LET e == events[cur][ei]
           i0 == (e.start * SR) \div TicksPerSecond
           num == (SR * e.dur) \div TicksPerSecond
       IN /\ DOMAIN buffer' = 0..(DURATION * SR - 1)
          /\ i0 >= DURATION * SR => buffer' = buffer
          /\ \A k \in DOMAIN buffer :
               (k < i0 \/ k >= Min(i0 + num, DURATION * SR)) => buffer'[k] = buffer[k]]_vars

\* the bass event that starts exactly at DURATION (i0 = N) has been passed
\* after a melody with an event running past DURATION was mixed
C3_Witness ==
  /\ pc = "mixing" /\ cur = "bassline" /\ ei = 3
  /\ (events[cur][2].start * SR) \div TicksPerSecond = DURATION * SR
  /\ "melody" \in mixed /\ Len(events["melody"]) = 2
  /\ \E k \in DOMAIN buffer : buffer[k] # 0

\* C4: mixing accumulates and does not depend on the order of the layers:
\* whenever no add_events call is running, in whatever order the calls were
\* made, each cell holds the sum of the volume-scaled samples of every event
\* of the mixed layers that covers it.
C4_OrderIndependent ==
  pc = "idle" =>
    buffer = [k \in 0..(DURATION * SR - 1) |->
                LayerAt("melody", k) + LayerAt("arpeggio", k) + LayerAt("bassline", k)
                  + LayerAt("pads", k) + LayerAt("drums", k)]

\* all five layers are mixed and some cell holds sound of three layers at once
C4_Witness ==
  /\ pc = "idle" /\ mixed = Layers
  /\ \E k \in DOMAIN buffer :
       /\ LayerAt("melody", k) # 0 /\ LayerAt("bassline", k) # 0
       /\ LayerAt("pads", k) # 0
       /\ buffer[k] # LayerAt("melody", k)

\* C8 as stated: a silent mixed buffer is left all 0 by the normalisation,
\* with no undefined value; any other buffer gets the peak 0.9.
C8_Claim ==
  pc = "normalized" =>
    IF \A k \in DOMAIN buffer : buffer[k] = 0
      THEN unit # 0
      ELSE 10 * MaxAbs(buffer, DURATION * SR) = 9 * unit

\* C9 as stated: an event whose symbol is neither a key of note_freqs nor a
\* drum kind adds silence and the call goes on to the next event.
C9_Claim ==
  [][(/\ pc = "mixing" /\ ei <= Len(events[cur])
      /\ events[cur][ei].sym \notin
           (DOMAIN note_freqs \cup {"kick", "snare", "hihat", "clap"})) =>
       (buffer' = buffer /\ pc' = "mixing" /\ ei' = ei + 1)]_vars

=============================================================================
